---------------------------- MODULE Spec2Model ----------------------------
(***************************************************************************)
(* A model of pathfinder's LineSegmentF (geometry/src/basic/line_segment.rs):*)
(* a directed 2D segment packed into one four-lane f32 vector, with its     *)
(* setters, splitting, solving, orientation, intersection and offsetting.   *)
(*                                                                          *)
(* Numbers.  An f32 is modelled as an extended rational <<n, d>>:           *)
(*   d > 0, gcd(n, d) = 1   the finite value n/d                            *)
(*   <<1, 0>>, <<-1, 0>>    +infinity, -infinity                            *)
(*   <<0, 0>>               NaN                                             *)
(* Arithmetic on finite values is exact; x/0, inf-inf, 0*inf and NaN follow *)
(* IEEE-754.  Rounding to 24 bits and the sign of zero are not modelled, so *)
(* an equality proved here is an equality of the real-number results: on    *)
(* the machine it holds exactly where the intermediate values are           *)
(* representable and up to rounding elsewhere.                              *)
(***************************************************************************)
EXTENDS Integers, Sequences, FiniteSets, TLC

VARIABLES seg, pc, op, arg, res

vars == <<seg, pc, op, arg, res>>

-----------------------------------------------------------------------------
(* Bounds of the model. *)

\* Segment coordinates are the integers 0 .. MaxCoord.
MaxCoord == 3

\* Coordinates of the second segment handed to intersection_t: 0 .. MaxOther.
MaxOther == 1

\* split is called with t = k / TDen for k in -1 .. TDen + 1.
TDen == 4

\* offset is called with the distances k / 2 for k in -MaxDist .. MaxDist.
MaxDist == 2

\* orient is called with y_winding in -MaxWinding .. MaxWinding.
MaxWinding == 2

-----------------------------------------------------------------------------
(* f32 *)

RECURSIVE GCD(_, _)
GCD(a, b) == IF b = 0 THEN a ELSE GCD(b, a % b)

Abs(n) == IF n < 0 THEN -n ELSE n

Sign(n) == IF n < 0 THEN -1 ELSE IF n > 0 THEN 1 ELSE 0

\* The f32 with value n/d; a zero d gives an infinity (n # 0) or NaN (n = 0).
Norm(n, d) ==
    IF d = 0 THEN <<Sign(n), 0>>
    ELSE LET g == GCD(Abs(n), Abs(d))
         IN  <<(Sign(d) * n) \div g, Abs(d) \div g>>

F(k) == <<k, 1>>

Zero == F(0)

One == F(1)

NaN == <<0, 0>>

PInf == <<1, 0>>

NInf == <<-1, 0>>

IsNaN(x) == x = NaN

IsInf(x) == x[2] = 0 /\ x[1] # 0

IsFinite(x) == x[2] # 0

FNeg(x) == <<-x[1], x[2]>>

FAbs(x) == <<Abs(x[1]), x[2]>>

FAdd(x, y) ==
    IF IsNaN(x) \/ IsNaN(y) THEN NaN
    ELSE IF IsInf(x) /\ IsInf(y) THEN (IF x = y THEN x ELSE NaN)
    ELSE IF IsInf(x) \/ IsInf(y) THEN (IF IsInf(x) THEN x ELSE y)
    ELSE LET g == GCD(x[2], y[2])
         IN  Norm(x[1] * (y[2] \div g) + y[1] * (x[2] \div g), (x[2] \div g) * y[2])

FSub(x, y) == FAdd(x, FNeg(y))

\* Common factors are cancelled before multiplying; 0 * inf is NaN.
FMul(x, y) ==
    IF x[2] = 0 \/ y[2] = 0 THEN <<Sign(x[1]) * Sign(y[1]), 0>>
    ELSE LET g == GCD(Abs(x[1]), y[2])
             h == GCD(Abs(y[1]), x[2])
         IN  <<(x[1] \div g) * (y[1] \div h), (x[2] \div h) * (y[2] \div g)>>

\* 1/y: 1/0 is +infinity (a difference a - a is +0), 1/inf is 0.
FInv(y) ==
    IF y[2] = 0 THEN (IF y[1] = 0 THEN NaN ELSE Zero)
    ELSE IF y[1] = 0 THEN PInf
    ELSE <<Sign(y[1]) * y[2], Abs(y[1])>>

FDiv(x, y) == FMul(x, FInv(y))

\* The comparisons of f32: every comparison with NaN is false.
FEq(x, y) == ~IsNaN(x) /\ ~IsNaN(y) /\ x = y

FLt(x, y) ==
    /\ ~IsNaN(x) /\ ~IsNaN(y) /\ x # y
    /\ \/ x = NInf
       \/ y = PInf
       \/ IsFinite(x) /\ IsFinite(y) /\ x[1] * y[2] < y[1] * x[2]

FLe(x, y) == FLt(x, y) \/ FEq(x, y)

\* f32::min and f32::max return the other operand when one is NaN.
FMin(x, y) == IF IsNaN(x) THEN y ELSE IF IsNaN(y) THEN x ELSE IF FLt(y, x) THEN y ELSE x

FMax(x, y) == IF IsNaN(x) THEN y ELSE IF IsNaN(y) THEN x ELSE IF FLt(x, y) THEN y ELSE x

IsSquareInt(n) == \E r \in 0..n : r * r = n

ISqrt(n) == CHOOSE r \in 0..n : r * r = n

\* The values whose square root is rational, and so a value of this model.
HasRationalSqrt(x) == IsFinite(x) /\ x[1] >= 0 /\ IsSquareInt(x[1]) /\ IsSquareInt(x[2])

FSqrt(x) == IF HasRationalSqrt(x) THEN <<ISqrt(x[1]), ISqrt(x[2])>> ELSE NaN

-----------------------------------------------------------------------------
(* F32x4: four lanes, numbered 1..4 here and 0..3 in the source. *)

F32x4_new(a, b, c, d) == <<a, b, c, d>>

splat(x) == <<x, x, x, x>>

concat_xy_xy(a, b) == <<a[1], a[2], b[1], b[2]>>

concat_xy_zw(a, b) == <<a[1], a[2], b[3], b[4]>>

zwxy(a) == <<a[3], a[4], a[1], a[2]>>

xyxy(a) == <<a[1], a[2], a[1], a[2]>>

zwzw(a) == <<a[3], a[4], a[3], a[4]>>

yxwz(a) == <<a[2], a[1], a[4], a[3]>>

xxyy(a) == <<a[1], a[1], a[2], a[2]>>

wyzx(a) == <<a[4], a[2], a[3], a[1]>>

V4Add(a, b) == <<FAdd(a[1], b[1]), FAdd(a[2], b[2]), FAdd(a[3], b[3]), FAdd(a[4], b[4])>>

V4Sub(a, b) == <<FSub(a[1], b[1]), FSub(a[2], b[2]), FSub(a[3], b[3]), FSub(a[4], b[4])>>

V4Mul(a, b) == <<FMul(a[1], b[1]), FMul(a[2], b[2]), FMul(a[3], b[3]), FMul(a[4], b[4])>>

\* PartialEq of F32x4 (derived for LineSegmentF): every lane compares equal.
V4Eq(a, b) == \A i \in 1..4 : FEq(a[i], b[i])

-----------------------------------------------------------------------------
(* Point2DF: an F32x4 whose lanes 1 and 2 are x and y; lanes 3, 4 are      *)
(* whatever the producing shuffle left there.                               *)

Point2DF_new(x, y) == F32x4_new(x, y, Zero, Zero)

point_x(p) == p[1]

point_y(p) == p[2]

point_add(p, q) == V4Add(p, q)

point_sub(p, q) == V4Sub(p, q)

point_neg(p) == <<FNeg(p[1]), FNeg(p[2]), FNeg(p[3]), FNeg(p[4])>>

point_scale(p, x) == V4Mul(p, splat(x))

scale_xy(p, factors) == V4Mul(p, factors)

yx(p) == yxwz(p)

\* Equality of points looks at x and y only.
point_eq(p, q) == FEq(p[1], q[1]) /\ FEq(p[2], q[2])

is_zero(p) == point_eq(p, Point2DF_new(Zero, Zero))

point_square_length(p) == FAdd(FMul(p[1], p[1]), FMul(p[2], p[2]))

point_length(p) == FSqrt(point_square_length(p))

normalize(p) == point_scale(p, FDiv(One, point_length(p)))

-----------------------------------------------------------------------------
(* Matrix2x2F: an F32x4 in column-major order (m11, m21, m12, m22). *)

det(m) == FSub(FMul(m[1], m[4]), FMul(m[3], m[2]))

adjugate(m) == V4Mul(wyzx(m), F32x4_new(One, FNeg(One), FNeg(One), One))

inverse(m) == V4Mul(splat(FDiv(One, det(m))), adjugate(m))

transform_point(m, p) ==
    LET halves == V4Mul(m, xxyy(p))
    IN  V4Add(halves, zwzw(halves))

-----------------------------------------------------------------------------
(* LineSegmentF(F32x4): lanes (from.x, from.y, to.x, to.y). *)

new(from_point, to_point) == concat_xy_xy(from_point, to_point)

from(self) == self

to(self) == zwxy(self)

\* set_from with the shuffle of set_to: the old from lands in to.
set_from_xy_xy(self, point) == concat_xy_xy(point, self)

set_from(self, point) == concat_xy_zw(point, self)

set_to(self, point) == concat_xy_xy(self, point)

from_x(self) == self[1]

from_y(self) == self[2]

to_x(self) == self[3]

to_y(self) == self[4]

set_from_x(self, x) == <<x, self[2], self[3], self[4]>>

set_from_y(self, y) == <<self[1], y, self[3], self[4]>>

set_to_x(self, x) == <<self[1], self[2], x, self[4]>>

set_to_y(self, y) == <<self[1], self[2], self[3], y>>

\* The condition of split's debug_assert!.
split_assert(t) == FLe(Zero, t) /\ FLe(t, One)

\* split's mid_mid without its from_from: d_d * splat(t) alone.
split_mid_without_from(from_from, to_to, t) == V4Mul(V4Sub(to_to, from_from), splat(t))

\* split's mid_mid: from_from + d_d * splat(t), with d_d = to_to - from_from.
split_mid(from_from, to_to, t) == V4Add(from_from, V4Mul(V4Sub(to_to, from_from), splat(t)))

\* split's result, the pair (first, second).
split_pair(from_from, mid_mid, to_to) ==
    <<concat_xy_xy(from_from, mid_mid), concat_xy_xy(mid_mid, to_to)>>

split(self, t) == split_pair(xyxy(self), split_mid(xyxy(self), zwzw(self), t), zwzw(self))

\* solve_t_for_x dividing by to.x instead of to.x - from.x.
solve_t_for_x_over_to(self, x) == FDiv(FSub(x, from_x(self)), to_x(self))

solve_t_for_x(self, x) == FDiv(FSub(x, from_x(self)), FSub(to_x(self), from_x(self)))

solve_t_for_y(self, y) == FDiv(FSub(y, from_y(self)), FSub(to_y(self), from_y(self)))

\* split_at_x's choice between (min_part, max_part) and (max_part, min_part).
order_at_x(min_part, max_part) ==
    IF FLt(from_x(min_part), from_x(max_part))
    THEN <<min_part, max_part>>
    ELSE <<max_part, min_part>>

split_parts_at_x(parts) == order_at_x(parts[1], parts[2])

split_at_x(self, x) == split_parts_at_x(split(self, solve_t_for_x(self, x)))

\* split_at_y ordering as split_at_x does, by from_y of both pieces.
order_at_y_by_from(min_part, max_part) ==
    IF FLt(from_y(min_part), from_y(max_part))
    THEN <<min_part, max_part>>
    ELSE <<max_part, min_part>>

\* split_at_y's choice: from_y of the one against to_y of the other.
order_at_y(min_part, max_part) ==
    IF FLt(from_y(min_part), to_y(max_part))
    THEN <<min_part, max_part>>
    ELSE <<max_part, min_part>>

split_parts_at_y(parts) == order_at_y(parts[1], parts[2])

split_at_y(self, y) == split_parts_at_y(split(self, solve_t_for_y(self, y)))

reversed(self) == zwxy(self)

upper_point(self) == IF FLt(from_y(self), to_y(self)) THEN from(self) ELSE to(self)

min_x(self) == FMin(from_x(self), to_x(self))

max_x(self) == FMax(from_x(self), to_x(self))

min_y(self) == FMin(from_y(self), to_y(self))

max_y(self) == FMax(from_y(self), to_y(self))

\* y_winding with <= for <.
y_winding_non_strict(self) == IF FLe(from_y(self), to_y(self)) THEN 1 ELSE -1

\* An i32.
y_winding(self) == IF FLt(from_y(self), to_y(self)) THEN 1 ELSE -1

\* orient reversing on zero as well.
orient_positive_only(self, winding) == IF winding > 0 THEN self ELSE reversed(self)

\* orient with its branches exchanged.
orient_inverted(self, winding) == IF winding >= 0 THEN reversed(self) ELSE self

orient(self, winding) == IF winding >= 0 THEN self ELSE reversed(self)

vector(self) == point_sub(to(self), from(self))

\* 0.0001.  No determinant of the inputs below lies between the f32 nearest
\* to 0.0001 and 0.0001 itself.
EPSILON == <<1, 10000>>

None == [k |-> "None"]

Some(v) == [k |-> "Some", v |-> v]

\* intersection_t returning the x component: the parameter along other.
intersection_t_along_other(self, other) ==
    LET p0p1   == vector(self)
        matrix == concat_xy_xy(vector(other), point_neg(p0p1))
    IN  IF FLt(FAbs(det(matrix)), EPSILON)
        THEN None
        ELSE Some(point_x(transform_point(inverse(matrix),
                                          point_sub(from(self), from(other)))))

intersection_t(self, other) ==
    LET p0p1   == vector(self)
        matrix == concat_xy_xy(vector(other), point_neg(p0p1))
    IN  IF FLt(FAbs(det(matrix)), EPSILON)
        THEN None
        ELSE Some(point_y(transform_point(inverse(matrix),
                                          point_sub(from(self), from(other)))))

sample(self, t) == point_add(from(self), point_scale(vector(self), t))

is_zero_length(self) == is_zero(vector(self))

\* impl Add<Point2DF> for LineSegmentF
seg_add(self, point) == V4Add(self, xyxy(point))

\* offset without the yx(): the displacement runs along the segment.
offset_along(self, distance) ==
    IF is_zero_length(self)
    THEN self
    ELSE seg_add(self, scale_xy(normalize(vector(self)),
                                Point2DF_new(FNeg(distance), distance)))

offset(self, distance) ==
    IF is_zero_length(self)
    THEN self
    ELSE seg_add(self, scale_xy(normalize(yx(vector(self))),
                                Point2DF_new(FNeg(distance), distance)))

-----------------------------------------------------------------------------
(* The inputs. *)

Coords == {F(k) : k \in 0..MaxCoord}

Points == {Point2DF_new(x, y) : x \in Coords, y \in Coords}

\* A point handed to a setter may carry anything in its upper lanes.
PointArgs == Points \cup {<<p[1], p[2], One, One>> : p \in Points}

\* The segments of the grid, and the 3-4-5 segments: the shortest slanted
\* segments of rational length.
Slanted ==
    {new(Point2DF_new(F(0), F(0)), Point2DF_new(F(3), F(4))),
     new(Point2DF_new(F(4), F(3)), Point2DF_new(F(0), F(0))),
     new(Point2DF_new(F(0), F(4)), Point2DF_new(F(3), F(0))),
     new(Point2DF_new(F(4), F(0)), Point2DF_new(F(0), F(3)))}

Segments == {new(p, q) : p \in Points, q \in Points} \cup Slanted

TVals == {Norm(k, TDen) : k \in -1..(TDen + 1)}

\* The abscissae and ordinates asked for: the half-integers around the grid.
XVals == {Norm(k, 2) : k \in -1..(2 * MaxCoord + 1)}

WVals == -MaxWinding..MaxWinding

DVals == {Norm(k, 2) : k \in -MaxDist..MaxDist}

\* 2^-14: a length whose product with 1 is below EPSILON.
Tiny == <<1, 16384>>

OtherCoords == {F(k) : k \in 0..MaxOther}

\* The second segments: from on the diagonal, to anywhere on the small grid,
\* and four segments of length 2^-14.
Others ==
    {new(Point2DF_new(a, a), Point2DF_new(c, d)) :
        a \in OtherCoords, c \in OtherCoords, d \in OtherCoords}
    \cup {new(Point2DF_new(Zero, Zero), Point2DF_new(Zero, Tiny)),
          new(Point2DF_new(Zero, Zero), Point2DF_new(Tiny, Zero)),
          new(Point2DF_new(One, Zero), Point2DF_new(One, Tiny)),
          new(Point2DF_new(Tiny, Tiny), Point2DF_new(Zero, Zero))}

-----------------------------------------------------------------------------
(* The state.                                                               *)
(*   seg  the LineSegmentF the caller holds                                 *)
(*   pc   "ready" while the caller may call, "returned" after a query       *)
(*   op   the last operation called, arg its arguments, res what it returned*)
(* A behaviour is new(from, to), any number of setter calls, then one       *)
(* query: queries take &self and leave the segment as it is, so every query *)
(* is made on every segment value the setters can reach.                    *)

NoRes == [k |-> "none"]

Panic == [k |-> "panic"]

Pair(parts) == [k |-> "pair", first |-> parts[1], second |-> parts[2]]

Value(v) == [k |-> "value", v |-> v]

Init ==
    /\ seg \in Segments
    /\ pc = "ready"
    /\ op = "new"
    /\ arg = <<>>
    /\ res = NoRes

Mutate(name, a, s) ==
    /\ pc = "ready"
    /\ seg' = s
    /\ op' = name
    /\ arg' = a
    /\ UNCHANGED <<pc, res>>

Return(name, a, r) ==
    /\ pc = "ready"
    /\ pc' = "returned"
    /\ op' = name
    /\ arg' = a
    /\ res' = r
    /\ UNCHANGED seg

SetFrom == \E p \in PointArgs : Mutate("set_from", <<p>>, set_from(seg, p))

SetTo == \E p \in PointArgs : Mutate("set_to", <<p>>, set_to(seg, p))

SetFromX == \E x \in Coords : Mutate("set_from_x", <<x>>, set_from_x(seg, x))

SetFromY == \E y \in Coords : Mutate("set_from_y", <<y>>, set_from_y(seg, y))

SetToX == \E x \in Coords : Mutate("set_to_x", <<x>>, set_to_x(seg, x))

SetToY == \E y \in Coords : Mutate("set_to_y", <<y>>, set_to_y(seg, y))

\* A call of split(t), parts being the pair it computes.  The pair is returned
\* when t is in [0, 1], and when it is not by a build without debug
\* assertions; a build with them panics on a t outside [0, 1].
SplitCall(name, a, t, parts) ==
    /\ pc = "ready"
    /\ \/ Return(name, a, Pair(parts))
       \/ ~split_assert(t) /\ Return(name, a, Panic)

Split == \E t \in TVals : SplitCall("split", <<t>>, t, split(seg, t))

SplitAtX ==
    \E x \in XVals :
        SplitCall("split_at_x", <<x>>, solve_t_for_x(seg, x), split_at_x(seg, x))

SplitAtY ==
    \E y \in XVals :
        SplitCall("split_at_y", <<y>>, solve_t_for_y(seg, y), split_at_y(seg, y))

SolveTForX == \E x \in XVals : Return("solve_t_for_x", <<x>>, Value(solve_t_for_x(seg, x)))

SolveTForY == \E y \in XVals : Return("solve_t_for_y", <<y>>, Value(solve_t_for_y(seg, y)))

Sample == \E t \in TVals : Return("sample", <<t>>, Value(sample(seg, t)))

Reversed == Return("reversed", <<>>, Value(reversed(seg)))

UpperPoint == Return("upper_point", <<>>, Value(upper_point(seg)))

YWinding == Return("y_winding", <<>>, Value(y_winding(seg)))

Orient == \E w \in WVals : Return("orient", <<w>>, Value(orient(seg, w)))

IntersectionT ==
    \E other \in Others : Return("intersection_t", <<other>>, intersection_t(seg, other))

\* The offset of a segment whose length is irrational is no value of this model.
Offset ==
    \E d \in DVals :
        /\ pc = "ready"
        /\ is_zero_length(seg) \/ HasRationalSqrt(point_square_length(yx(vector(seg))))
        /\ Return("offset", <<d>>, Value(offset(seg, d)))

IsZeroLength == Return("is_zero_length", <<>>, Value(is_zero_length(seg)))

Next ==
    \/ SetFrom \/ SetTo \/ SetFromX \/ SetFromY \/ SetToX \/ SetToY
    \/ Split \/ SplitAtX \/ SplitAtY \/ SolveTForX \/ SolveTForY \/ Sample
    \/ Reversed \/ UpperPoint \/ YWinding \/ Orient
    \/ IntersectionT \/ Offset \/ IsZeroLength

Spec == Init /\ [][Next]_vars

\* The setters alone.
NextSet == SetFrom \/ SetTo \/ SetFromX \/ SetFromY \/ SetToX \/ SetToY

SpecSet == Init /\ [][NextSet]_vars

\* Splitting.
NextSplit == Split \/ SplitAtX \/ SplitAtY

SpecSplit == Init /\ [][NextSplit]_vars

\* Solving and sampling.
NextSolve == SolveTForX \/ SolveTForY \/ Sample

SpecSolve == Init /\ [][NextSolve]_vars

\* Orientation.
NextOrient == Reversed \/ UpperPoint \/ YWinding \/ Orient

SpecOrient == Init /\ [][NextOrient]_vars

\* Intersection.
NextIntersect == IntersectionT

SpecIntersect == Init /\ [][NextIntersect]_vars

\* Offsetting.
NextOffset == Offset \/ IsZeroLength

SpecOffset == Init /\ [][NextOffset]_vars

-----------------------------------------------------------------------------
(* The claims.  In a state reached by a query, seg is the segment it was    *)
(* called on, arg its arguments and res what it returned.                   *)

\* The comparisons of the claims, on finite values.
Between(x, a, b) == FLe(FMin(a, b), x) /\ FLe(x, FMax(a, b))

\* from + (to - from) * t, one coordinate.
Interpolate(a, b, t) == FAdd(a, FMul(FSub(b, a), t))

\* The z component of the cross product of the plane vectors (ax, ay), (bx, by).
Cross2(ax, ay, bx, by) == FSub(FMul(ax, by), FMul(ay, bx))

Dot2(ax, ay, bx, by) == FAdd(FMul(ax, bx), FMul(ay, by))

FSign(x) == Sign(x[1])

\* C1: for t in [0, 1], split(t) returns (l, r) with l.from = s.from,
\* r.to = s.to and l.to = r.from = s.from + (s.to - s.from) * t; at t = 0 and
\* t = 1 one of the two is zero-length.
C1_SplitJoinsAtLerp ==
    (op = "split" /\ split_assert(arg[1])) =>
        /\ res.k = "pair"
        /\ point_eq(from(res.first), from(seg))
        /\ point_eq(to(res.second), to(seg))
        /\ point_eq(to(res.first), from(res.second))
        /\ point_eq(to(res.first),
                    Point2DF_new(Interpolate(from_x(seg), to_x(seg), arg[1]),
                                 Interpolate(from_y(seg), to_y(seg), arg[1])))
        /\ (arg[1] = Zero => is_zero_length(res.first))
        /\ (arg[1] = One => is_zero_length(res.second))

\* A segment of positive length split at t = 1: the second piece is the point to.
C1_Witness ==
    /\ op = "split" /\ arg[1] = One /\ res.k = "pair"
    /\ ~is_zero_length(seg)
    /\ is_zero_length(res.second)
    /\ V4Eq(res.first, seg)

\* Both endpoints of piece lie at or before c, on the lanes first and first + 2.
PieceAtMost(piece, lane, c) == FLe(piece[lane], c) /\ FLe(piece[lane + 2], c)

PieceAtLeast(piece, lane, c) == FLe(c, piece[lane]) /\ FLe(c, piece[lane + 2])

\* C2: for from.x # to.x and min_x <= x <= max_x, split_at_x(x) returns the
\* left piece first: the first piece lies in x' <= x, the second in x' >= x.
C2_SplitAtXLeftFirst ==
    (/\ op = "split_at_x"
     /\ ~FEq(from_x(seg), to_x(seg))
     /\ FLe(min_x(seg), arg[1]) /\ FLe(arg[1], max_x(seg))) =>
        /\ res.k = "pair"
        /\ PieceAtMost(res.first, 1, arg[1])
        /\ PieceAtLeast(res.second, 1, arg[1])

\* C3: for from.y # to.y and min_y <= y <= max_y, split_at_y(y) returns the
\* upper piece first: the first piece lies in y' <= y, the second in y' >= y,
\* also when y is an endpoint's y and one piece is zero-length.
C3_SplitAtYUpperFirst ==
    (/\ op = "split_at_y"
     /\ ~FEq(from_y(seg), to_y(seg))
     /\ FLe(min_y(seg), arg[1]) /\ FLe(arg[1], max_y(seg))) =>
        /\ res.k = "pair"
        /\ PieceAtMost(res.first, 2, arg[1])
        /\ PieceAtLeast(res.second, 2, arg[1])

\* An ascending segment split at its from.y: the zero-length piece comes first.
C3_Witness ==
    /\ op = "split_at_y" /\ res.k = "pair"
    /\ FLt(from_y(seg), to_y(seg))
    /\ arg[1] = from_y(seg)
    /\ is_zero_length(res.first)
    /\ V4Eq(res.second, seg)

\* The point s.from + s.vector * t lies on the line through other's endpoints.
OnLineOf(self, t, other) ==
    Cross2(FSub(Interpolate(from_x(self), to_x(self), t), from_x(other)),
           FSub(Interpolate(from_y(self), to_y(self), t), from_y(other)),
           FSub(to_x(other), from_x(other)),
           FSub(to_y(other), from_y(other))) = Zero

\* The cross product of the two direction vectors: zero when they are parallel.
Directions(self, other) ==
    Cross2(FSub(to_x(self), from_x(self)), FSub(to_y(self), from_y(self)),
           FSub(to_x(other), from_x(other)), FSub(to_y(other), from_y(other)))

\* C4, as claimed: whenever the direction vectors are not parallel,
\* intersection_t returns Some(t) with s.from + s.vector * t on other's line.
C4_SomeWheneverNotParallel ==
    (op = "intersection_t" /\ Directions(seg, arg[1]) # Zero) =>
        /\ res.k = "Some"
        /\ OnLineOf(seg, res.v, arg[1])

\* C4, amended: when the cross product of the direction vectors is at least
\* 0.0001 in absolute value, intersection_t returns Some(t), t the parameter
\* along self, not clamped, with s.from + s.vector * t on other's line; when
\* it is below 0.0001, parallel or not, intersection_t returns None.
C4_SomeWhenDetAtLeastEpsilon ==
    op = "intersection_t" =>
        IF FLt(FAbs(Directions(seg, arg[1])), EPSILON)
        THEN res = None
        ELSE /\ res.k = "Some"
             /\ OnLineOf(seg, res.v, arg[1])

\* The lines cross beyond the end of self, at a point that is not the same
\* parameter along other: t > 1 is returned as it is.
C4_Witness ==
    /\ op = "intersection_t" /\ res.k = "Some"
    /\ FLt(One, res.v)
    /\ OnLineOf(seg, res.v, arg[1])
    /\ ~OnLineOf(arg[1], res.v, seg)

\* C5, as claimed: orient twice with the same y_winding is orient once.
C5_OrientIdempotent ==
    op = "orient" => V4Eq(orient(res.v, arg[1]), res.v)

\* C5, amended: for y_winding >= 0 orient returns the segment, and twice is
\* once; for y_winding < 0 the second orient undoes the first, so twice is the
\* segment itself, which is orient once only if the segment is its own
\* reversal.
C5_OrientTwice ==
    op = "orient" =>
        IF arg[1] >= 0
        THEN V4Eq(res.v, seg) /\ V4Eq(orient(res.v, arg[1]), res.v)
        ELSE /\ V4Eq(orient(res.v, arg[1]), seg)
             /\ (V4Eq(orient(res.v, arg[1]), res.v) <=> V4Eq(seg, reversed(seg)))

\* A negative y_winding on a segment that differs from its reversal.
C5_Witness ==
    /\ op = "orient" /\ arg[1] < 0
    /\ ~V4Eq(res.v, seg)
    /\ V4Eq(orient(res.v, arg[1]), seg)

\* C6, as claimed: y_winding is +1 when to.y - from.y is non-negative,
\* horizontal segments included, and -1 when it is negative.
C6_WindingNonNegative ==
    op = "y_winding" =>
        res.v = (IF FLe(Zero, FSub(to_y(seg), from_y(seg))) THEN 1 ELSE -1)

\* C6, amended: y_winding is +1 when to.y - from.y is positive and -1 when it
\* is zero or negative: a horizontal segment has winding -1.
C6_WindingStrict ==
    op = "y_winding" =>
        res.v = (IF FLt(Zero, FSub(to_y(seg), from_y(seg))) THEN 1 ELSE -1)

\* A horizontal segment of positive length, and its winding -1.
C6_Witness ==
    /\ op = "y_winding"
    /\ from_y(seg) = to_y(seg) /\ from_x(seg) # to_x(seg)
    /\ res.v = -1

\* C7, as claimed: on a segment that is not zero-length, sampling at
\* solve_t_for_x(x) gives back x for x between from.x and to.x, and sampling at
\* solve_t_for_y(y) gives back y for y between from.y and to.y.
C7_SolveThenSample ==
    /\ (/\ op = "solve_t_for_x" /\ ~is_zero_length(seg)
        /\ Between(arg[1], from_x(seg), to_x(seg))) =>
            FEq(point_x(sample(seg, res.v)), arg[1])
    /\ (/\ op = "solve_t_for_y" /\ ~is_zero_length(seg)
        /\ Between(arg[1], from_y(seg), to_y(seg))) =>
            FEq(point_y(sample(seg, res.v)), arg[1])

\* C7, amended: the segment must not be vertical for x (from.x # to.x) and not
\* horizontal for y (from.y # to.y); the equality is that of the exact results.
C7_SolveThenSampleOffAxis ==
    /\ (/\ op = "solve_t_for_x" /\ ~FEq(from_x(seg), to_x(seg))
        /\ Between(arg[1], from_x(seg), to_x(seg))) =>
            FEq(point_x(sample(seg, res.v)), arg[1])
    /\ (/\ op = "solve_t_for_y" /\ ~FEq(from_y(seg), to_y(seg))
        /\ Between(arg[1], from_y(seg), to_y(seg))) =>
            FEq(point_y(sample(seg, res.v)), arg[1])

\* A descending segment solved a third of the way along: t = 1/3.
C7_Witness ==
    /\ op = "solve_t_for_x"
    /\ FLt(to_x(seg), from_x(seg))
    /\ res.v = <<1, 3>>
    /\ point_x(sample(seg, res.v)) = arg[1]

\* C8: offset(d) returns a zero-length segment as it is; otherwise it moves
\* both endpoints by (-d * v.y / |v|, d * v.x / |v|), v the segment's vector:
\* a displacement perpendicular to v, of length |d|, that keeps the vector.
C8_OffsetPerpendicular ==
    op = "offset" =>
        IF is_zero_length(seg)
        THEN V4Eq(res.v, seg)
        ELSE LET d  == arg[1]
                 vx == FSub(to_x(seg), from_x(seg))
                 vy == FSub(to_y(seg), from_y(seg))
                 l2 == Dot2(vx, vy, vx, vy)
                 dx == FSub(from_x(res.v), from_x(seg))
                 dy == FSub(from_y(res.v), from_y(seg))
             IN  /\ FSub(to_x(res.v), to_x(seg)) = dx
                 /\ FSub(to_y(res.v), to_y(seg)) = dy
                 /\ point_eq(vector(res.v), vector(seg))
                 /\ Dot2(dx, dy, vx, vy) = Zero
                 /\ FMul(FMul(dx, dx), l2) = FMul(FMul(d, d), FMul(vy, vy))
                 /\ FMul(FMul(dy, dy), l2) = FMul(FMul(d, d), FMul(vx, vx))
                 /\ FSign(dx) = -(FSign(d) * FSign(vy))
                 /\ FSign(dy) = FSign(d) * FSign(vx)

\* The horizontal segment ((0,0),(1,0)) offset by 1/2: shifted by (0, 1/2).
C8_Witness ==
    /\ op = "offset"
    /\ seg = <<F(0), F(0), F(1), F(0)>>
    /\ arg[1] = <<1, 2>>
    /\ res.v = <<F(0), <<1, 2>>, F(1), <<1, 2>>>>

\* C9: orient by the segment's own winding puts the upper endpoint first:
\* o.from.y <= o.to.y, o.from is upper_point, and o is s or s reversed.
C9_OrientByOwnWinding ==
    (op = "orient" /\ arg[1] = y_winding(seg)) =>
        /\ FLe(from_y(res.v), to_y(res.v))
        /\ point_eq(from(res.v), upper_point(seg))
        /\ (V4Eq(res.v, seg) \/ V4Eq(res.v, reversed(seg)))

\* A segment running upwards (from.y > to.y), turned round by its winding -1.
C9_Witness ==
    /\ op = "orient" /\ arg[1] = y_winding(seg) /\ arg[1] = -1
    /\ FLt(to_y(seg), from_y(seg))
    /\ V4Eq(res.v, reversed(seg))
    /\ FLt(from_y(res.v), to_y(res.v))

\* C10: a setter writes the lanes it names and leaves the others as they
\* were: set_from(p) writes from = (p.x, p.y) and keeps to, set_to(p) writes to
\* and keeps from, and each per-axis setter writes one lane and keeps three.
\* Step by step, every lane then holds the last value written to it.
Kept(lanes) == \A i \in lanes : seg'[i] = seg[i]

C10_SettersWriteNamedLanes ==
    [][/\ op' = "set_from" => seg'[1] = arg'[1][1] /\ seg'[2] = arg'[1][2] /\ Kept({3, 4})
       /\ op' = "set_to" => seg'[3] = arg'[1][1] /\ seg'[4] = arg'[1][2] /\ Kept({1, 2})
       /\ op' = "set_from_x" => seg'[1] = arg'[1] /\ Kept({2, 3, 4})
       /\ op' = "set_from_y" => seg'[2] = arg'[1] /\ Kept({1, 3, 4})
       /\ op' = "set_to_x" => seg'[3] = arg'[1] /\ Kept({1, 2, 4})
       /\ op' = "set_to_y" => seg'[4] = arg'[1] /\ Kept({1, 2, 3})]_vars

\* set_from with a point whose upper lanes are (1, 1) on a segment whose to is
\* (3, 0): from is the point, to is still (3, 0).
C10_Witness ==
    /\ op = "set_from"
    /\ arg[1] = <<F(2), F(2), F(1), F(1)>>
    /\ seg = <<F(2), F(2), F(3), F(0)>>

=============================================================================
